---- MODULE Spec2Model ----
(***************************************************************************)
(* AgentGist: the report workflow (src/agentgist/workflow.py) driven by    *)
(* the Streamlit callbacks of src/app.py, with its step functions          *)
(* (src/agentgist/agents/*.py) and data model (src/agentgist/data.py).     *)
(*                                                                         *)
(* Text is abstract: a Python str is a record, [lit |-> "..."] for a       *)
(* literal and [fmt |-> ..., ...] for an f-string with its arguments.  An  *)
(* LLM response is a sequence of tokens: the fence "```" (F), the fence    *)
(* "```json" (FJ) and chunks of text without backticks.  Values read from  *)
(* JSON are tagged with their JSON kind.                                   *)
(***************************************************************************)
EXTENDS Integers, Sequences, FiniteSets, TLC

None == [k |-> "None"]

Lit(s) == [lit |-> s]

\* ---------------------------------------------------------------- bounds
MaxPosts == 2
MaxTokens == 3
MaxInvokes == 4
MaxComments == 3
MaxFilterPosts == 4
MaxKeywords == 2
MaxTextLen == 60
MaxTokenLimit == 2

\* ------------------------------------------------------- JSON and Python
JStr(x) == [k |-> "str", s |-> x]
JNum(n) == [k |-> "num", n |-> n]
JList(xs) == [k |-> "list", xs |-> xs]
JNull == [k |-> "null"]
JObj(f) == [k |-> "obj", f |-> f]

IsStr(v) == v.k = "str"
IsStrList(v) == v.k = "list" /\ \A i \in 1..Len(v.xs) : IsStr(v.xs[i])
StrItems(v) == [i \in 1..Len(v.xs) |-> v.xs[i].s]

Ok(v) == [ok |-> TRUE, v |-> v]
Raise(e) == [ok |-> FALSE, e |-> e]

\* ------------------------------------------------------------ data model
SentimentNames ==
  {"happiness", "anger", "sadness", "fear", "surprise", "disgust", "trust", "anticipation"}

SentimentAnyStr(v) == IsStr(v)

\* The Literal[...] annotation of PostAnalysis.sentiment.
SentimentLiteral(v) == IsStr(v) /\ v.s \in {Lit(n) : n \in SentimentNames}

\* A str field given with ..., and a List[str] field given with [].
Required(kw, name) == name \in DOMAIN kw /\ IsStr(kw[name])
ListOk(kw, name) == name \in DOMAIN kw => IsStrList(kw[name])
ListOf(kw, name) == IF name \in DOMAIN kw THEN StrItems(kw[name]) ELSE <<>>

\* PostAnalysis(**kw): pydantic validates every field on construction.
PostAnalysis(kw) ==
  IF /\ Required(kw, "summary")
     /\ ListOk(kw, "key_points") /\ ListOk(kw, "topics") /\ ListOk(kw, "controversies")
     /\ "sentiment" \in DOMAIN kw /\ SentimentLiteral(kw.sentiment)
  THEN Ok([summary |-> kw.summary.s,
           key_points |-> ListOf(kw, "key_points"),
           topics |-> ListOf(kw, "topics"),
           controversies |-> ListOf(kw, "controversies"),
           sentiment |-> kw.sentiment.s])
  ELSE Raise("ValidationError")

\* Comment(text=body, author=..., score=score, replies=...)
Comment(text, score, replies) == [text |-> text, score |-> score, replies |-> replies]

\* Post: the permalink identifies it; comments is [] and analysis is None
\* unless given.  The other required fields are carried by the permalink.
Post(permalink) == [permalink |-> permalink, comments |-> <<>>, analysis |-> None]

\* Validation of a Comment, of a List[Comment] and of an Optional[PostAnalysis].
RECURSIVE CommentFromJson(_)
CommentFromJson(v) ==
  IF /\ v.k = "obj"
     /\ "text" \in DOMAIN v.f /\ IsStr(v.f.text)
     /\ "score" \in DOMAIN v.f /\ v.f.score.k = "num"
     /\ "replies" \in DOMAIN v.f =>
          /\ v.f.replies.k = "list"
          /\ \A i \in 1..Len(v.f.replies.xs) : CommentFromJson(v.f.replies.xs[i]).ok
  THEN Ok(Comment(v.f.text.s, v.f.score.n,
                  IF "replies" \in DOMAIN v.f
                  THEN [i \in 1..Len(v.f.replies.xs) |-> CommentFromJson(v.f.replies.xs[i]).v]
                  ELSE <<>>))
  ELSE Raise("ValidationError")

CommentsFromJson(f) ==
  IF "comments" \notin DOMAIN f THEN Ok(<<>>)
  ELSE IF /\ f.comments.k = "list"
          /\ \A i \in 1..Len(f.comments.xs) : CommentFromJson(f.comments.xs[i]).ok
  THEN Ok([i \in 1..Len(f.comments.xs) |-> CommentFromJson(f.comments.xs[i]).v])
  ELSE Raise("ValidationError")

AnalysisFromJson(f) ==
  IF "analysis" \notin DOMAIN f \/ f.analysis.k = "null" THEN Ok(None)
  ELSE IF f.analysis.k = "obj" THEN PostAnalysis(f.analysis.f)
  ELSE Raise("ValidationError")

PostFromJsonBare(v) ==
  IF v.k = "obj" /\ "permalink" \in DOMAIN v.f /\ v.f.permalink.k = "num"
  THEN Ok(Post(v.f.permalink.n))
  ELSE Raise("ValidationError")

\* Validation of a Post given as a mapping.
PostFromJson(v) ==
  IF /\ v.k = "obj" /\ "permalink" \in DOMAIN v.f /\ v.f.permalink.k = "num"
     /\ CommentsFromJson(v.f).ok /\ AnalysisFromJson(v.f).ok
  THEN Ok([permalink |-> v.f.permalink.n,
           comments |-> CommentsFromJson(v.f).v,
           analysis |-> AnalysisFromJson(v.f).v])
  ELSE Raise("ValidationError")

\* Optional[List[Post]], default [].
ReferencesOk(kw) ==
  "references" \in DOMAIN kw =>
     \/ kw.references.k = "null"
     \/ /\ kw.references.k = "list"
        /\ \A i \in 1..Len(kw.references.xs) : PostFromJson(kw.references.xs[i]).ok

\* A Python list is tagged like a JSON list, so that it compares with None.
ReferencesOf(kw) ==
  IF "references" \notin DOMAIN kw THEN JList(<<>>)
  ELSE IF kw.references.k = "null" THEN None
  ELSE JList([i \in 1..Len(kw.references.xs) |-> PostFromJson(kw.references.xs[i]).v])

\* Report(**kw)
Report(kw) ==
  IF /\ Required(kw, "title") /\ Required(kw, "summary")
     /\ ListOk(kw, "takeaways") /\ ReferencesOk(kw)
  THEN Ok([title |-> kw.title.s,
           takeaways |-> ListOf(kw, "takeaways"),
           summary |-> kw.summary.s,
           references |-> ReferencesOf(kw)])
  ELSE Raise("ValidationError")

\* model_dump: every declared field under its name, a model as a mapping, a
\* list item by item, None as null.
StrList(xs) == JList([i \in 1..Len(xs) |-> JStr(xs[i])])

RECURSIVE CommentDump(_)
CommentDump(c) ==
  JObj([text |-> JStr(c.text), score |-> JNum(c.score),
        replies |-> JList([i \in 1..Len(c.replies) |-> CommentDump(c.replies[i])])])

AnalysisDump(a) ==
  JObj([summary |-> JStr(a.summary), key_points |-> StrList(a.key_points),
        topics |-> StrList(a.topics), controversies |-> StrList(a.controversies),
        sentiment |-> JStr(a.sentiment)])

PostDump(p) ==
  JObj([permalink |-> JNum(p.permalink),
        comments |-> JList([i \in 1..Len(p.comments) |-> CommentDump(p.comments[i])]),
        analysis |-> IF p.analysis = None THEN JNull ELSE AnalysisDump(p.analysis)])

model_dump(report) ==
  JObj([title |-> JStr(report.title), takeaways |-> StrList(report.takeaways),
        summary |-> JStr(report.summary),
        references |-> IF report.references = None THEN JNull
                       ELSE JList([i \in 1..Len(report.references.xs) |->
                                     PostDump(report.references.xs[i])])])

\* ---------------------------------------------------------- LLM responses
F == [t |-> "F"]
FJ == [t |-> "FJ"]
Ws == [t |-> "ws"]
Text == [t |-> "text"]
Json(v) == [t |-> "json", v |-> v]
\* The text of a JSON value that has "```" inside one of its strings is three
\* tokens: the text up to the backticks, F, and the text after them.
Open(v) == [t |-> "open", v |-> v]
Close(v) == [t |-> "close", v |-> v]

\* "```json" in s; "```" in s (the longer fence contains the shorter).
HasFJ(c) == \E i \in 1..Len(c) : c[i].t = "FJ"
HasF(c) == \E i \in 1..Len(c) : c[i].t \in {"F", "FJ"}

\* The index of the first token of c whose tag is in tags, Len(c)+1 if none.
First(c, tags) ==
  IF \E i \in 1..Len(c) : c[i].t \in tags
  THEN CHOOSE i \in 1..Len(c) : c[i].t \in tags /\ \A j \in 1..(i-1) : c[j].t \notin tags
  ELSE Len(c) + 1

\* s.split(sep)[0] and s.split(sep)[1], sep given by the tags that hold it;
\* the second is taken only when sep occurs in s.
Split0(c, tags) == SubSeq(c, 1, First(c, tags) - 1)
Split1(c, tags) ==
  LET rest == SubSeq(c, First(c, tags) + 1, Len(c))
  IN  Split0(rest, tags)

RECURSIVE LStrip(_)
LStrip(c) == IF c # <<>> /\ Head(c).t = "ws" THEN LStrip(Tail(c)) ELSE c
RECURSIVE RStrip(_)
RStrip(c) ==
  IF c # <<>> /\ c[Len(c)].t = "ws" THEN RStrip(SubSeq(c, 1, Len(c) - 1)) ELSE c
Strip(c) == RStrip(LStrip(c))

\* The code-fence handling shared by analyze_post and write_report.
FenceStrip(c) ==
  IF HasFJ(c) THEN Strip(Split0(Split1(c, {"FJ"}), {"F"}))
  ELSE IF HasF(c) THEN Strip(Split0(Split1(c, {"F"}), {"F"}))
  ELSE c

\* json.loads: one JSON text, white space around it allowed.
json_loads(c) ==
  LET body == Strip(c)
  IN  IF Len(body) = 1 /\ body[1].t = "json" THEN Ok(body[1].v)
      ELSE IF /\ Len(body) = 3
              /\ body[1].t = "open" /\ body[2].t = "F" /\ body[3].t = "close"
              /\ body[1].v = body[3].v
      THEN Ok(body[1].v)
      ELSE Raise("JSONDecodeError")

\* Cls(**json_data): ** needs a mapping.
Splat(parsed) ==
  IF ~parsed.ok THEN parsed
  ELSE IF parsed.v.k # "obj" THEN Raise("TypeError")
  ELSE Ok(parsed.v.f)

\* llm.invoke(messages): create_llm may have returned None; the call may fail
\* at the network layer; otherwise the response text is the provider's.
llm_invoke(llm, outcome) == IF llm = None THEN Raise("AttributeError") ELSE outcome

\* ------------------------------------------------------------ analyze_post
AnalysisFallbackArgs(e, content) ==
  [summary |-> JStr([fmt |-> "Error parsing response", e |-> e, original |-> content]),
   key_points |-> JList(<<JStr(Lit("Analysis failed")), JStr(Lit("JSON parsing error")),
                          JStr(Lit("Check logs"))>>),
   topics |-> JList(<<JStr(Lit("error"))>>),
   controversies |-> JList(<<JStr(Lit("none"))>>),
   sentiment |-> JStr(Lit("neutral"))]

ParseAnalysis(content) ==
  LET kw == Splat(json_loads(FenceStrip(content)))
  IN  IF kw.ok THEN PostAnalysis(kw.v) ELSE kw

analyze_post(llm, outcome) ==
  LET response == llm_invoke(llm, outcome)
  IN  IF ~response.ok THEN response
      ELSE LET parsed == ParseAnalysis(response.v)
           IN  IF parsed.ok THEN parsed
               ELSE PostAnalysis(AnalysisFallbackArgs(parsed.e, response.v))

\* ------------------------------------------------------------ write_report
ReportTakeawaysFallback ==
  <<Lit("Report generation failed"), Lit("Try a different query"),
    Lit("Check logs for details")>>

ReportFallbackArgsNoSummary(e, content) ==
  [title |-> JStr([fmt |-> "Error Generating Report", e |-> e]),
   takeaways |-> JList([i \in 1..3 |-> JStr(ReportTakeawaysFallback[i])])]

ReportFallbackArgs(e, content) ==
  [title |-> JStr([fmt |-> "Error Generating Report", e |-> e]),
   summary |-> JStr([fmt |-> "There was an error parsing the model response",
                     original |-> content]),
   takeaways |-> JList([i \in 1..3 |-> JStr(ReportTakeawaysFallback[i])])]

ParseReport(content) ==
  LET kw == Splat(json_loads(FenceStrip(content)))
  IN  IF kw.ok THEN Report(kw.v) ELSE kw

\* _create_post_text reads post.analysis.summary of every post.
PostTextsOk(posts) == \A i \in 1..Len(posts) : posts[i].analysis # None

write_report(llm, posts, outcome) ==
  IF ~PostTextsOk(posts) THEN Raise("AttributeError")
  ELSE LET response == llm_invoke(llm, outcome)
       IN  IF ~response.ok THEN response
           ELSE LET parsed == ParseReport(response.v)
                IN  IF parsed.ok THEN parsed
                    ELSE Report(ReportFallbackArgs(parsed.e, response.v))

\* ------------------------------------------------------------------ config
OLLAMA == "ollama"
GROQ == "groq"
QWEN == [name |-> "qwen2.5", provider |-> OLLAMA]
DEEPSEEK_R1 == [name |-> "deepseek-r1:14b", provider |-> OLLAMA]
LLAMA_3_3 == [name |-> "llama-3.3-70b-versatile", provider |-> GROQ]
ModelConfigs == {QWEN, DEEPSEEK_R1, LLAMA_3_3}

\* Config.Model as config.py sets it, and as a deployment may set it from
\* the ModelConfigs config.py declares.
ShippedConfig == [DEFAULT |-> QWEN, REPORT_WRITER |-> DEEPSEEK_R1]
GroqConfig == [DEFAULT |-> LLAMA_3_3, REPORT_WRITER |-> LLAMA_3_3]
MixedConfig == [DEFAULT |-> LLAMA_3_3, REPORT_WRITER |-> DEEPSEEK_R1]
Configs == {ShippedConfig, GroqConfig, MixedConfig}

FILTER_POST_COUNT == 3
THREAD_ID == 42
ThreadIds == {THREAD_ID}

\* --------------------------------------------------------- model routing
\* A query is known by the number of keywords of each level it contains.
Query(h, m, l) == [high |-> h, medium |-> m, low |-> l]

assess_complexity(query) ==
  IF query.high > query.medium THEN "high"
  ELSE IF query.medium > query.low THEN "medium"
  ELSE "low"

get_model_for_task(cfg, query) ==
  IF assess_complexity(query) = "high" THEN cfg.REPORT_WRITER ELSE cfg.DEFAULT

\* EnhancedGroqChat(model=model_config.name, ...); a query from the chat
\* input is never the empty string, so the routed config replaces the given one.
create_optimized_chat(cfg, model_config, query) ==
  [model |-> get_model_for_task(cfg, query).name]

create_llm(cfg, model_config, query) ==
  IF model_config.provider = GROQ
  THEN create_optimized_chat(cfg, model_config, query)
  ELSE None

\* f"Analyze post: {post.title}. {query}" holds the keyword "analyze".
PostSpecificQuery(query) == Query(query.high + 1, query.medium, query.low)

\* ------------------------------------------------------------ filter_posts
Min(a, b) == IF a < b THEN a ELSE b
Permalinks(posts) == {posts[i].permalink : i \in 1..Len(posts)}

\* The retriever's answers: the k best documents of those given, best first;
\* a document is named by the permalink in its metadata.
Ranked(posts, k) ==
  {r \in [1..k -> Permalinks(posts)] : \A i, j \in 1..k : r[i] = r[j] => i = j}

RetrievalsAll(posts) == Ranked(posts, Len(posts))
Retrievals(posts) == Ranked(posts, Min(FILTER_POST_COUNT, Len(posts)))

NoToolCalls == [tool_calls |-> <<>>]
ToolCall(name, args) == [tool_calls |-> <<[name |-> name, args |-> args]>>]

_execute_tool_search(response, query) ==
  IF response.tool_calls = <<>>
  THEN [name |-> "search_documents", args |-> [query |-> query]]
  ELSE response.tool_calls[1]

PostAt(posts, permalink) == CHOOSE p \in {posts[i] : i \in 1..Len(posts)} : p.permalink = permalink

\* Document(page_content=..., metadata={"permalink": post.permalink})
Document(permalink) == [metadata |-> [permalink |-> permalink]]

_create_documents_from_posts(posts) ==
  [i \in 1..Len(posts) |-> Document(posts[i].permalink)]

KeepDocuments(tool_call, documents) ==
  IF "documents" \in DOMAIN tool_call.args THEN tool_call
  ELSE [tool_call EXCEPT !.args =
          [k \in (DOMAIN tool_call.args) \cup {"documents"} |->
             IF k = "documents" THEN documents ELSE tool_call.args[k]]]

\* tool_call["args"]["documents"] = ...
SetDocuments(tool_call, documents) ==
  [tool_call EXCEPT !.args =
     [k \in (DOMAIN tool_call.args) \cup {"documents"} |->
        IF k = "documents" THEN documents ELSE tool_call.args[k]]]

\* post_filter.py 95-96: the tool call that filter_posts executes.
PreparedToolCall(query, posts, response) ==
  SetDocuments(_execute_tool_search(response, query), _create_documents_from_posts(posts))

\* search_documents: the retriever ranks the documents it is given; ranking
\* is its order of preference over permalinks, best first.
search_documents(args, ranking) ==
  LET given == {args.documents[j].metadata.permalink : j \in 1..Len(args.documents)}
      hits == SelectSeq(ranking, LAMBDA permalink : permalink \in given)
  IN  [i \in 1..Len(hits) |-> Document(hits[i])]

filter_posts_ranked(llm, query, posts, outcome, found) ==
  IF llm = None THEN Raise("AttributeError")
  ELSE IF ~outcome.ok THEN outcome
  ELSE LET tool_call == PreparedToolCall(query, posts, outcome.v)
       IN  IF tool_call.name # "search_documents" THEN Raise("KeyError")
           ELSE IF "query" \notin DOMAIN tool_call.args THEN Raise("ValidationError")
           ELSE LET found_documents == search_documents(tool_call.args, found)
                IN  Ok([i \in 1..Len(found_documents) |->
                          PostAt(posts, found_documents[i].metadata.permalink)])

\* found is the retriever's ranking of the best documents among the posts'.
filter_posts(llm, query, posts, outcome, found) ==
  IF llm = None THEN Raise("AttributeError")
  ELSE IF ~outcome.ok THEN outcome
  ELSE LET tool_call == PreparedToolCall(query, posts, outcome.v)
       IN  IF tool_call.name # "search_documents" THEN Raise("KeyError")
           ELSE IF "query" \notin DOMAIN tool_call.args THEN Raise("ValidationError")
           ELSE LET found_documents == search_documents(tool_call.args, found)
                    permalinks == {found_documents[i].metadata.permalink :
                                     i \in 1..Len(found_documents)}
                IN  Ok(SelectSeq(posts, LAMBDA p : p.permalink \in permalinks))

\* ------------------------------------------------------------ post_fetcher
\* requests.get(...): a status code and, with 200, the JSON of the body.
HttpOk == 200
Response(status, data) == [status_code |-> status, json |-> data]

_fetch_posts(response) ==
  IF response.status_code # HttpOk THEN Raise("HTTPError") ELSE Ok(response.json)

_fetch_comments(response) ==
  IF response.status_code # HttpOk THEN Raise("HTTPError") ELSE Ok(response.json)

\* Reddit's JSON: a Listing holds children; a child of kind t1 is a comment
\* whose replies are "" or a Listing.
Listing(children) == [kind |-> "Listing", data |-> [children |-> children]]
NoReplies == JStr(Lit(""))
Child(kind, score, body, replies) ==
  [kind |-> kind, data |-> [score |-> score, body |-> body, replies |-> replies]]

IsPyList(v) == "xs" \in DOMAIN v
IsPyDict(v) == "kind" \in DOMAIN v

DefaultMinScore == 2
NoMaxDepth == -1

RECURSIVE Concat(_)
Concat(seqs) == IF seqs = <<>> THEN <<>> ELSE Head(seqs) \o Concat(Tail(seqs))

\* The two `continue` tests of the loop over children.
Kept(child, min_score) == child.kind = "t1" /\ ~(child.data.score < min_score)

\* What a child that is passed over leaves in the result: nothing, its
\* replies are not looked at.
SkipHoists(below) == below
Skip(below) == <<>>

\* replies and isinstance(replies, dict), and the depth test.
DescendsAlways(replies, max_depth, current_depth) == IsPyDict(replies)
Descends(replies, max_depth, current_depth) ==
  /\ IsPyDict(replies)
  /\ max_depth = NoMaxDepth \/ current_depth < max_depth

\* comments.append(...) in the order of the loop
AppendComment(comments, comment) == Append(comments, comment)

RECURSIVE _extract_comments(_, _, _, _)
RECURSIVE ExtractChildren(_, _, _, _)
\* The loop over data["data"]["children"]; the recursive call gives no
\* min_score, so the replies are extracted with the default.
ExtractChildren(children, max_depth, current_depth, min_score) ==
  IF children = <<>> THEN <<>>
  ELSE LET n == Len(children)
           child == children[n]
           before == ExtractChildren(SubSeq(children, 1, n - 1), max_depth,
                                     current_depth, min_score)
           below == _extract_comments(child.data.replies, max_depth, current_depth + 1,
                                      DefaultMinScore)
       IN  IF ~Kept(child, min_score) THEN before \o Skip(below)
           ELSE AppendComment(before,
                  Comment(child.data.body, child.data.score,
                          IF Descends(child.data.replies, max_depth, current_depth)
                          THEN below ELSE <<>>))

\* A list is walked item by item, again without min_score.
_extract_comments(data, max_depth, current_depth, min_score) ==
  IF IsPyList(data)
  THEN Concat([i \in 1..Len(data.xs) |->
                 _extract_comments(data.xs[i], max_depth, current_depth, DefaultMinScore)])
  ELSE IF ~IsPyDict(data) THEN <<>>
  ELSE IF "data" \in DOMAIN data /\ "children" \in DOMAIN data.data
  THEN ExtractChildren(data.data.children, max_depth, current_depth, min_score)
  ELSE <<>>

\* fetch_subreddit_posts: the listing request, then one comment request per
\* post; the first request answered other than 200 raises out of the task.
RECURSIVE FetchComments(_, _, _)
FetchComments(posts, responses, i) ==
  IF i > Len(posts) THEN Ok(posts)
  ELSE LET comments_data == _fetch_comments(responses[i])
       IN  IF ~comments_data.ok THEN comments_data
           ELSE FetchComments(posts, responses, i + 1)

FetchPartial(listing, responses) ==
  LET posts_data == _fetch_posts(listing)
      good == {i \in 1..Len(responses) : responses[i].status_code = HttpOk}
  IN  IF ~posts_data.ok THEN posts_data
      ELSE Ok(SelectSeq(posts_data.v,
                        LAMBDA p : \E i \in good : posts_data.v[i] = p))

FetchPosts(listing, responses) ==
  LET posts_data == _fetch_posts(listing)
  IN  IF ~posts_data.ok THEN posts_data
      ELSE FetchComments(posts_data.v, responses, 1)

\* ---------------------------------------------------------- TokenOptimizer
\* A str is the sequence of its characters.  text[:k], text[-k:] and
\* text[a:b] for k, a, b >= 0, as Python slices them.
Max(a, b) == IF a > b THEN a ELSE b
Prefix(text, k) == SubSeq(text, 1, Min(k, Len(text)))
Suffix(text, k) == IF k = 0 THEN text ELSE SubSeq(text, Max(Len(text) - k, 0) + 1, Len(text))
Slice(text, a, b) == SubSeq(text, a + 1, Min(b, Len(text)))

\* "...[content truncated]...": 25 characters, none of them of the text.
MarkerLen == 25
Marker == [i \in 1..MarkerLen |-> 0]

truncate_context(text, max_tokens) ==
  LET char_limit == max_tokens * 4
      intro_size == char_limit \div 4
      conclusion_size == char_limit \div 4
      middle_size == char_limit - (intro_size + conclusion_size)
      intro == Prefix(text, intro_size)
      conclusion == Suffix(text, conclusion_size)
      middle_start == (Len(text) - middle_size) \div 2
      middle == Slice(text, middle_start, middle_start + middle_size)
  IN  IF Len(text) <= char_limit THEN text
      ELSE intro \o Marker \o middle \o Marker \o conclusion

\* ------------------------------------------------------------------- state
VARIABLES
  Config,    \* Config.Model: the model of each role
  ckpt,      \* the MemorySaver: the latest checkpoint of each thread id
  run,       \* the invocation each browser session has in flight, and its last result
  ui,        \* st.session_state and the widgets of each browser session
  ngen,      \* logical runs started so far
  ninv,      \* invocations made so far
  call,      \* a step function called on its own: its arguments
  ret        \* and what it returned or raised

vars == <<Config, ckpt, run, ui, ngen, ninv, call, ret>>

\* The browser sessions of the one Streamlit process.  The form stays while
\* no start has suspended; the chat input is drawn by a suspended start and
\* gone after the resume it submits.
Sessions == {"u1", "u2"}

Some(x) == [k |-> "some", v |-> x]

NoCheckpoint ==
  [gen |-> 0, input |-> None, done |-> FALSE, output |-> None, interrupt |-> None,
   fetched |-> None, query |-> None, selected |-> None, analyses |-> <<>>]

\* mode, at and fetches are history: how the invocation was made, the state of
\* the checkpoint it began from, and how often it executed fetch.  shared
\* tells whether the items of selected are the very objects of posts, as they
\* are when filter_posts returned them in this invocation, or copies read
\* from the checkpoint.
IdleRun ==
  [pc |-> "idle", mode |-> "none", at |-> "none", gen |-> 0, fetches |-> 0,
   input |-> None, resume |-> None, shared |-> FALSE,
   posts |-> <<>>, query |-> None, selected |-> <<>>, i |-> 0, result |-> None]

FreshUi == [is_subreddit_selected |-> FALSE, chat_input |-> FALSE]

\* RunResult; from is history, filled in when the invocation ends.
NoOrigin == [mode |-> "none", at |-> "none", gen |-> 0, fetches |-> 0, step |-> "none",
             posts |-> <<>>, selected |-> <<>>]
Suspended(payload) == [kind |-> "Suspended", payload |-> payload, from |-> NoOrigin]
Completed(value) == [kind |-> "Completed", value |-> value, from |-> NoOrigin]
Failed(error) == [kind |-> "Failed", error |-> error, from |-> NoOrigin]

\* ---------------------------------------------------------------- inputs
Subreddits == {"r/LocalLLaMA"}
StartInputs == [subreddit : Subreddits, max_posts : {MaxPosts}]
\* "AI hardware": no keyword of any level.
Queries == {Query(0, 0, 0)}

\* What the listing request can return: the posts of the moment, in API order.
\* A permalink <<g, i>> is the i-th post of the listing the g-th run sees.
Listings(limit, g) == {[i \in 1..n |-> Post(<<g, i>>)] : n \in 0..limit}

\* The answers of reddit.com: 200, or a refusal such as 429.
StatusCodes == {HttpOk, 429}
\* The body of a comment request: the post's Listing and the comments' Listing.
CommentsData ==
  JList(<<Listing(<<Child("t3", 7, <<0>>, NoReplies)>>),
          Listing(<<Child("t1", 3, <<1>>, NoReplies)>>)>>)

AOk ==
  JObj([summary |-> JStr(Lit("s")), key_points |-> JList(<<JStr(Lit("k"))>>),
        sentiment |-> JStr(Lit("trust"))])
ANeutral == JObj([summary |-> JStr(Lit("s")), sentiment |-> JStr(Lit("neutral"))])
ANoSummary == JObj([sentiment |-> JStr(Lit("anger"))])
ROk ==
  JObj([title |-> JStr(Lit("t")), summary |-> JStr(Lit("s")),
        takeaways |-> JList(<<JStr(Lit("a"))>>)])
RRefs ==
  JObj([title |-> JStr(Lit("t")), summary |-> JStr(Lit("s")),
        takeaways |-> JList(<<JStr(Lit("a"))>>),
        references |-> JList(<<JObj([permalink |-> JNum(<<0, 1>>)])>>)])
RNullRefs == JObj([title |-> JStr(Lit("t")), summary |-> JStr(Lit("s")), references |-> JNull])
RBadRefs ==
  JObj([title |-> JStr(Lit("t")), summary |-> JStr(Lit("s")),
        references |-> JList(<<JStr(Lit("r/x"))>>)])
RNoTitle == JObj([summary |-> JStr(Lit("s"))])
\* Valid values whose summary quotes a command between backticks.
ATicks == JObj([summary |-> JStr(Lit("quotes a code fence")),
                sentiment |-> JStr(Lit("trust"))])
RTicks == JObj([title |-> JStr(Lit("t")), summary |-> JStr(Lit("quotes a code fence"))])
JsonValues == {AOk, ANeutral, ANoSummary, ROk, RRefs, RNullRefs, RBadRefs, RNoTitle, JList(<<>>)}

TransportError == Raise("TransportError")

\* The responses the steps of a run see: bare, fenced, invalid and prose.
Bare(v) == <<Json(v)>>
Fenced(v) == <<FJ, Ws, Json(v), Ws, F>>
AnalyzeOutcomes ==
  {TransportError} \cup {Ok(c) : c \in {Bare(AOk), Fenced(AOk), Bare(ANeutral), <<Text>>}}
ReportOutcomes ==
  {TransportError} \cup
  {Ok(c) : c \in {Bare(ROk), Fenced(ROk), Bare(RRefs), <<Text>>}}
ToolOutcomes ==
  {TransportError, Ok(NoToolCalls), Ok(ToolCall("search_documents", [query |-> "q"])),
   Ok(ToolCall("lookup", [query |-> "q"])), Ok(ToolCall("search_documents", [documents |-> "d"])),
   Ok(ToolCall("search_documents", [query |-> "q", documents |-> <<Document(<<0, 0>>)>>]))}

\* -------------------------------------------------------------------- Init
Init ==
  /\ Config \in Configs
  /\ ckpt = [t \in ThreadIds |-> NoCheckpoint]
  /\ run = [u \in Sessions |-> IdleRun]
  /\ ui = [u \in Sessions |-> FreshUi]
  /\ ngen = 0
  /\ ninv = 0
  /\ call = None
  /\ ret = None

\* ------------------------------------------------------------ the engine
\* A task result is written to the checkpoint of its logical run; once a
\* later checkpoint exists for the thread the write is no longer seen.
Visible(g) == ckpt[THREAD_ID].gen = g /\ ~ckpt[THREAD_ID].done

WriteTask(g, field, value) ==
  ckpt' = IF Visible(g) THEN [ckpt EXCEPT ![THREAD_ID][field] = value] ELSE ckpt

\* The invocation returns or raises: its locals are gone, the caller has the
\* RunResult, here with the invocation it came from.
Origin(r) ==
  [mode |-> r.mode, at |-> r.at, gen |-> r.gen, fetches |-> r.fetches, step |-> r.pc,
   posts |-> r.posts, selected |-> r.selected]

Return(u, result) == [IdleRun EXCEPT !.result = [result EXCEPT !.from = Origin(run[u])]]

\* An exception leaves the invocation: the callback ends with it, and the
\* chat input of a resume is not drawn again.
FailWrapped(u, e) ==
  /\ run' = [run EXCEPT ![u] = Return(u, Failed("RuntimeError"))]
  /\ ui' = IF run[u].mode = "resume" THEN [ui EXCEPT ![u].chat_input = FALSE] ELSE ui

Fail(u, e) ==
  /\ run' = [run EXCEPT ![u] = Return(u, Failed(e))]
  /\ ui' = IF run[u].mode = "resume" THEN [ui EXCEPT ![u].chat_input = FALSE] ELSE ui

\* Command(resume=...) on the latest checkpoint: the entrypoint runs again
\* from its first line, and every task whose result the checkpoint holds
\* returns that result instead of executing.
WithAnalyses(selected, analyses) ==
  [j \in 1..Len(selected) |->
     IF j <= Len(analyses) THEN [selected[j] EXCEPT !.analysis = analyses[j]]
     ELSE selected[j]]

ReplayFromStart(c, resume) ==
  [IdleRun EXCEPT !.pc = "fetch", !.mode = "resume", !.gen = c.gen, !.input = c.input,
                  !.resume = resume,
                  !.at = IF c.interrupt # None /\ c.query = None
                         THEN "suspended" ELSE "unfinished"]

Replay(c, resume) ==
  LET base == [IdleRun EXCEPT !.mode = "resume", !.gen = c.gen, !.input = c.input,
                              !.resume = resume,
                              !.at = IF c.interrupt # None /\ c.query = None
                                     THEN "suspended" ELSE "unfinished"]
  IN  IF c.fetched = None THEN [base EXCEPT !.pc = "fetch"]
      ELSE IF c.query = None THEN [base EXCEPT !.pc = "query", !.posts = c.fetched.v]
      ELSE IF c.selected = None
      THEN [base EXCEPT !.pc = "filter", !.posts = c.fetched.v, !.query = c.query.v]
      ELSE [base EXCEPT !.pc = IF Len(c.analyses) < Len(c.selected.v) THEN "analyze"
                                ELSE "report",
                        !.posts = c.fetched.v, !.query = c.query.v,
                        !.selected = WithAnalyses(c.selected.v, c.analyses),
                        !.i = Len(c.analyses) + 1]

\* ----------------------------------------------------------------- actions
StartRunCached(c, g, input) ==
  IF c.done
  THEN [IdleRun EXCEPT !.result = [Completed(c.output) EXCEPT
                                     !.from = [NoOrigin EXCEPT !.mode = "start", !.gen = g]]]
  ELSE [IdleRun EXCEPT !.pc = "fetch", !.mode = "start", !.at = "new", !.gen = g,
                       !.input = input]

\* An invocation with an input, whatever checkpoint c the thread has: the
\* entrypoint runs from its first line with that input and no cached result.
StartRun(c, g, input) ==
  [IdleRun EXCEPT !.pc = "fetch", !.mode = "start", !.at = "new", !.gen = g,
                  !.input = input]

\* app.py on_choose_subreddit: write_report_workflow.invoke(workflow_input, ...)
on_choose_subreddit(u) ==
  /\ ~ui[u].is_subreddit_selected
  /\ run[u].pc = "idle"
  /\ ninv < MaxInvokes
  /\ \E input \in StartInputs :
       /\ ckpt' = [ckpt EXCEPT ![THREAD_ID] =
                     [NoCheckpoint EXCEPT !.gen = ngen + 1, !.input = input]]
       /\ run' = [run EXCEPT ![u] = StartRun(ckpt[THREAD_ID], ngen + 1, input)]
  /\ ngen' = ngen + 1
  /\ ninv' = ninv + 1
  /\ UNCHANGED <<Config, ui, call, ret>>

\* fetch_subreddit_posts: any request answering other than 200 raises.
fetch_subreddit_posts(u) ==
  /\ run[u].pc = "fetch"
  /\ \E listing \in Listings(run[u].input.max_posts, run[u].gen), status \in StatusCodes :
       \E statuses \in [1..Len(listing) -> StatusCodes] :
         LET r == FetchPosts(Response(status, listing),
                             [i \in 1..Len(listing) |-> Response(statuses[i], CommentsData)])
         IN  IF r.ok
             THEN /\ run' = [run EXCEPT ![u].pc = "query", ![u].posts = r.v,
                                        ![u].fetches = @ + 1]
                  /\ WriteTask(run[u].gen, "fetched", Some(r.v))
                  /\ UNCHANGED ui
             ELSE /\ Fail(u, r.e)
                  /\ UNCHANGED ckpt
  /\ UNCHANGED <<Config, ngen, ninv, call, ret>>

\* The value request_filter_query hands to interrupt.
InterruptValueShort(posts) == [posts |-> SubSeq(posts, 1, Len(posts) - 1)]
InterruptValue(posts) == [posts |-> posts]

\* request_filter_query: interrupt({"posts": posts}) returns the resume value
\* when the invocation carries one and suspends the run otherwise.
interrupt(u) ==
  IF run[u].resume = None
  THEN /\ run' = [run EXCEPT ![u] = Return(u, Suspended(InterruptValue(run[u].posts)))]
       /\ WriteTask(run[u].gen, "interrupt", Some(InterruptValue(run[u].posts)))
       /\ ui' = [ui EXCEPT ![u] = [is_subreddit_selected |-> TRUE, chat_input |-> TRUE]]
  ELSE /\ run' = [run EXCEPT ![u].pc = "filter", ![u].query = run[u].resume.filter_query]
       /\ WriteTask(run[u].gen, "query", Some(run[u].resume.filter_query))
       /\ UNCHANGED ui

request_filter_query(u) ==
  /\ run[u].pc = "query"
  /\ interrupt(u)
  /\ UNCHANGED <<Config, ngen, ninv, call, ret>>

\* workflow.py 43-45
filter_step(u) ==
  /\ run[u].pc = "filter"
  /\ \E outcome \in ToolOutcomes, found \in Retrievals(run[u].posts) :
       LET llm == create_llm(Config, Config.DEFAULT, run[u].query)
           r == filter_posts(llm, run[u].query, run[u].posts, outcome, found)
       IN  IF r.ok
           THEN /\ run' = [run EXCEPT ![u].pc = IF r.v = <<>> THEN "report" ELSE "analyze",
                                      ![u].selected = r.v, ![u].i = 1,
                                      ![u].shared = TRUE]
                /\ WriteTask(run[u].gen, "selected", Some(r.v))
                /\ UNCHANGED ui
           ELSE /\ Fail(u, r.e)
                /\ UNCHANGED ckpt
  /\ UNCHANGED <<Config, ngen, ninv, call, ret>>

\* workflow.py 47-52: one iteration of the loop
SetAt(seq, i, v) ==
  IF i <= Len(seq) THEN [seq EXCEPT ![i] = v]
  ELSE IF i = Len(seq) + 1 THEN Append(seq, v)
  ELSE seq

SetAnalysisAll(posts, permalink, analysis) ==
  [j \in 1..Len(posts) |-> [posts[j] EXCEPT !.analysis = analysis]]

\* post.analysis = ...: the one Post object of that permalink gets the
\* analysis, in every list that holds the object.
SetAnalysis(posts, permalink, analysis) ==
  [j \in 1..Len(posts) |->
     IF posts[j].permalink = permalink THEN [posts[j] EXCEPT !.analysis = analysis]
     ELSE posts[j]]

Assigned(r, i, analysis) ==
  [r EXCEPT !.selected = SetAnalysis(@, r.selected[i].permalink, analysis),
            !.posts = IF r.shared THEN SetAnalysis(@, r.selected[i].permalink, analysis)
                      ELSE @,
            !.i = i + 1]

analyze_step_first_only(u) ==
  /\ run[u].pc = "analyze"
  /\ \E outcome \in AnalyzeOutcomes :
       LET post_llm == create_llm(Config, Config.DEFAULT, PostSpecificQuery(run[u].query))
           r == analyze_post(post_llm, outcome)
           i == run[u].i
       IN  IF r.ok
           THEN /\ run' = [run EXCEPT ![u] = [Assigned(@, i, r.v) EXCEPT !.pc = "report"]]
                /\ WriteTask(run[u].gen, "analyses", SetAt(ckpt[THREAD_ID].analyses, i, r.v))
                /\ UNCHANGED ui
           ELSE /\ Fail(u, r.e)
                /\ UNCHANGED ckpt
  /\ UNCHANGED <<Config, ngen, ninv, call, ret>>

analyze_step(u) ==
  /\ run[u].pc = "analyze"
  /\ \E outcome \in AnalyzeOutcomes :
       LET post_llm == create_llm(Config, Config.DEFAULT, PostSpecificQuery(run[u].query))
           r == analyze_post(post_llm, outcome)
           i == run[u].i
       IN  IF r.ok
           THEN /\ run' = [run EXCEPT ![u] =
                             [Assigned(@, i, r.v) EXCEPT
                                !.pc = IF i < Len(run[u].selected) THEN "analyze"
                                       ELSE "report"]]
                /\ WriteTask(run[u].gen, "analyses", SetAt(ckpt[THREAD_ID].analyses, i, r.v))
                /\ UNCHANGED ui
           ELSE /\ Fail(u, r.e)
                /\ UNCHANGED ckpt
  /\ UNCHANGED <<Config, ngen, ninv, call, ret>>

KeepReferences(report, selected_posts) == report

\* workflow.py 56-61, and the checkpoint of the finished run, the thread's latest
AttachReferences(report, selected_posts) ==
  [report EXCEPT !.references = JList(selected_posts)]

write_report_step(u) ==
  /\ run[u].pc = "report"
  /\ \E outcome \in ReportOutcomes :
       LET report_llm == create_llm(Config, Config.REPORT_WRITER, run[u].query)
           r == write_report(report_llm, run[u].selected, outcome)
       IN  IF r.ok
           THEN LET report == AttachReferences(r.v, run[u].selected)
                IN  /\ run' = [run EXCEPT ![u] = Return(u, Completed(report))]
                    /\ ckpt' = [ckpt EXCEPT ![THREAD_ID] =
                                  [NoCheckpoint EXCEPT !.gen = run[u].gen,
                                                       !.input = run[u].input,
                                                       !.done = TRUE, !.output = report]]
                    /\ ui' = [ui EXCEPT ![u].chat_input = FALSE]
           ELSE /\ Fail(u, r.e)
                /\ UNCHANGED ckpt
  /\ UNCHANGED <<Config, ngen, ninv, call, ret>>

\* app.py on_chat_input: write_report_workflow.invoke(Command(resume=...), ...).
\* The latest checkpoint of a finished run has nothing pending: no task runs,
\* and the caller gets the thread's stored value or an AttributeError from
\* formatting None as a report.
on_chat_input(u) ==
  /\ ui[u].chat_input
  /\ run[u].pc = "idle"
  /\ ninv < MaxInvokes
  /\ ninv' = ninv + 1
  /\ \E q \in Queries :
       LET c == ckpt[THREAD_ID]
       IN  IF c.done
           THEN /\ \E result \in {Completed(c.output), Failed("AttributeError")} :
                     run' = [run EXCEPT ![u] =
                               [IdleRun EXCEPT !.result =
                                  [result EXCEPT !.from =
                                     [NoOrigin EXCEPT !.mode = "resume", !.at = "finished",
                                                      !.gen = c.gen]]]]
                /\ ui' = [ui EXCEPT ![u].chat_input = FALSE]
           ELSE /\ run' = [run EXCEPT ![u] = Replay(c, [filter_query |-> q])]
                /\ UNCHANGED ui
  /\ UNCHANGED <<Config, ckpt, ngen, call, ret>>

Next ==
  \E u \in Sessions :
    \/ on_choose_subreddit(u)
    \/ fetch_subreddit_posts(u)
    \/ request_filter_query(u)
    \/ filter_step(u)
    \/ analyze_step(u)
    \/ write_report_step(u)
    \/ on_chat_input(u)

Spec == Init /\ [][Next]_vars

\* ------------------------------------------- the step functions on their own
\* analyze_post and write_report called with any model, posts and response.
Chat == [model |-> LLAMA_3_3.name]

SeqsUpTo(S, n) == UNION {[1..k -> S] : k \in 0..n}
Fences == {F, FJ, Ws, Text}
AnalysisContents ==
  SeqsUpTo(Fences \cup {Json(v) : v \in {AOk, ANeutral, ANoSummary, JList(<<>>)}}
                  \cup {Open(ATicks), Close(ATicks)}, MaxTokens)
ReportContents ==
  SeqsUpTo(Fences \cup {Json(v) : v \in {ROk, RRefs, RNullRefs, RBadRefs, RNoTitle,
                                          JList(<<>>)}}
                  \cup {Open(RTicks), Close(RTicks)}, MaxTokens)

Analyzed(post) == [post EXCEPT !.analysis = PostAnalysis(AOk.f).v]
PostLists == {<<>>, <<Analyzed(Post(<<1, 1>>))>>, <<Post(<<1, 1>>)>>}

AnalyzeCalls ==
  [fn : {"analyze_post"}, llm : {None, Chat},
   outcome : {TransportError} \cup {Ok(c) : c \in AnalysisContents}]
ReportCalls ==
  [fn : {"write_report"}, llm : {None, Chat}, posts : PostLists,
   outcome : {TransportError} \cup {Ok(c) : c \in ReportContents}]

InitSteps ==
  /\ Config = ShippedConfig
  /\ ckpt = [t \in ThreadIds |-> NoCheckpoint]
  /\ run = [u \in Sessions |-> IdleRun]
  /\ ui = [u \in Sessions |-> FreshUi]
  /\ ngen = 0
  /\ ninv = 0
  /\ call \in AnalyzeCalls \cup ReportCalls
  /\ ret = None

analyze_post_call ==
  /\ call # None /\ call.fn = "analyze_post" /\ ret = None
  /\ ret' = analyze_post(call.llm, call.outcome)
  /\ UNCHANGED <<Config, ckpt, run, ui, ngen, ninv, call>>

write_report_call ==
  /\ call # None /\ call.fn = "write_report" /\ ret = None
  /\ ret' = write_report(call.llm, call.posts, call.outcome)
  /\ UNCHANGED <<Config, ckpt, run, ui, ngen, ninv, call>>

NextSteps == analyze_post_call \/ write_report_call

SpecSteps == InitSteps /\ [][NextSteps]_vars

\* --------------------------------------------------- the fetcher on its own
\* Comment data of up to MaxComments children in any nesting: a comment of
\* score 1, 2 or 3, or a "more" stub.  The body of a child is its path.
ChildKinds == {[kind |-> "t1", score |-> 1], [kind |-> "t1", score |-> 2],
               [kind |-> "t1", score |-> 3], [kind |-> "more", score |-> 0]}

RECURSIVE Forest(_)
Forest(n) ==
  IF n = 0 THEN {<<>>}
  ELSE UNION {{<<[label |-> l, kids |-> c]>> \o r :
                 l \in ChildKinds, c \in Forest(k - 1), r \in Forest(n - k)} : k \in 1..n}

RECURSIVE ApiChildren(_, _)
ApiChildren(forest, path) ==
  [i \in 1..Len(forest) |->
     Child(forest[i].label.kind, forest[i].label.score, Append(path, i),
           IF forest[i].kids = <<>> THEN NoReplies
           ELSE Listing(ApiChildren(forest[i].kids, Append(path, i))))]

CommentListings == {Listing(ApiChildren(f, <<>>)) : f \in UNION {Forest(n) : n \in 0..MaxComments}}
PostListing == Listing(<<Child("t3", 7, <<0>>, NoReplies)>>)

\* A Listing, the [post, comments] pair a comment request answers with, or a str.
CommentData ==
  CommentListings \cup {JList(<<PostListing, l>>) : l \in CommentListings} \cup {NoReplies}

MaxDepths == {NoMaxDepth, 0, 1}
MinScores == {1, 2, 3}

ExtractCalls ==
  [fn : {"_extract_comments"}, data : CommentData, max_depth : MaxDepths,
   min_score : MinScores]

FetchCalls ==
  UNION {{[fn |-> "fetch_subreddit_posts", listing |-> Response(status, listing),
           responses |-> [i \in 1..Len(listing) |-> Response(statuses[i], CommentsData)]] :
            status \in StatusCodes, statuses \in [1..Len(listing) -> StatusCodes]} :
         listing \in Listings(MaxPosts, 1)}

InitFetch ==
  /\ Config = ShippedConfig
  /\ ckpt = [t \in ThreadIds |-> NoCheckpoint]
  /\ run = [u \in Sessions |-> IdleRun]
  /\ ui = [u \in Sessions |-> FreshUi]
  /\ ngen = 0
  /\ ninv = 0
  /\ call \in ExtractCalls \cup FetchCalls
  /\ ret = None

extract_comments_call ==
  /\ call # None /\ call.fn = "_extract_comments" /\ ret = None
  /\ ret' = Ok(_extract_comments(call.data, call.max_depth, 0, call.min_score))
  /\ UNCHANGED <<Config, ckpt, run, ui, ngen, ninv, call>>

fetch_posts_call ==
  /\ call # None /\ call.fn = "fetch_subreddit_posts" /\ ret = None
  /\ ret' = FetchPosts(call.listing, call.responses)
  /\ UNCHANGED <<Config, ckpt, run, ui, ngen, ninv, call>>

NextFetch == extract_comments_call \/ fetch_posts_call

SpecFetch == InitFetch /\ [][NextFetch]_vars

\* ---------------------------------------------------- the filter on its own
\* filter_posts called with any model, any posts and any answer of the
\* retriever, and the rest of the workflow run on what it returned with
\* responses that parse.
FilterCalls ==
  UNION {[fn : {"filter_posts"}, llm : {None, Chat}, query : Queries, posts : {posts},
          outcome : ToolOutcomes, found : Retrievals(posts)] :
         posts \in Listings(MaxFilterPosts, 1)}

\* workflow.py 47-61 on the selected posts
ReportOn(selected_posts, analysis, report) ==
  AttachReferences(report, [j \in 1..Len(selected_posts) |->
                              [selected_posts[j] EXCEPT !.analysis = analysis]])

InitFilter ==
  /\ Config = ShippedConfig
  /\ ckpt = [t \in ThreadIds |-> NoCheckpoint]
  /\ run = [u \in Sessions |-> IdleRun]
  /\ ui = [u \in Sessions |-> FreshUi]
  /\ ngen = 0
  /\ ninv = 0
  /\ call \in FilterCalls
  /\ ret = None

filter_posts_call ==
  /\ call # None /\ call.fn = "filter_posts" /\ ret = None
  /\ ret' = filter_posts(call.llm, call.query, call.posts, call.outcome, call.found)
  /\ UNCHANGED <<Config, ckpt, run, ui, ngen, ninv, call>>

report_on_selected_call ==
  /\ call # None /\ call.fn = "filter_posts" /\ ret # None
  /\ ret.ok /\ "report" \notin DOMAIN ret
  /\ ret' = [ok |-> TRUE, v |-> ret.v,
             report |-> ReportOn(ret.v, PostAnalysis(AOk.f).v, Report(ROk.f).v)]
  /\ UNCHANGED <<Config, ckpt, run, ui, ngen, ninv, call>>

NextFilter == filter_posts_call \/ report_on_selected_call

SpecFilter == InitFilter /\ [][NextFilter]_vars

\* ------------------------------------------- a resume over a longer listing
\* The form takes up to 20 posts: a session whose start fetched up to
\* MaxFilterPosts posts and suspended submits its query, and the workflow
\* runs from the checkpoint of that start.
LoopInput == [subreddit |-> "r/LocalLLaMA", max_posts |-> MaxFilterPosts]

SuspendedCheckpoint(posts) ==
  [NoCheckpoint EXCEPT !.gen = 1, !.input = LoopInput, !.fetched = Some(posts),
                       !.interrupt = Some(InterruptValue(posts))]

InitLoop ==
  /\ Config \in {GroqConfig, MixedConfig}
  /\ \E posts \in Listings(MaxFilterPosts, 1), q \in Queries :
       /\ ckpt = [t \in ThreadIds |-> SuspendedCheckpoint(posts)]
       /\ run = [u \in Sessions |->
                   IF u = "u1" THEN Replay(SuspendedCheckpoint(posts), [filter_query |-> q])
                   ELSE IdleRun]
  /\ ui = [u \in Sessions |->
             IF u = "u1" THEN [is_subreddit_selected |-> TRUE, chat_input |-> TRUE]
             ELSE FreshUi]
  /\ ngen = 1
  /\ ninv = 2
  /\ call = None
  /\ ret = None

NextLoop ==
  \E u \in Sessions :
    \/ request_filter_query(u)
    \/ filter_step(u)
    \/ analyze_step(u)
    \/ write_report_step(u)

SpecLoop == InitLoop /\ [][NextLoop]_vars

\* ------------------------------------------------- a Report dumped and read
\* Reports as the workflow returns them: the parsed or the placeholder fields,
\* and references of posts with comment trees and with or without analysis.
CommentLists ==
  {<<>>,
   <<Comment(Lit("c"), 2, <<>>)>>,
   <<Comment(Lit("c"), 3, <<Comment(Lit("r"), 2, <<>>)>>), Comment(Lit("d"), 2, <<>>)>>}

Analyses ==
  {None, PostAnalysis(AOk.f).v,
   PostAnalysis([summary |-> JStr(Lit("s")), sentiment |-> JStr(Lit("anger"))]).v}

FullPosts(i) ==
  {[Post(<<1, i>>) EXCEPT !.comments = c, !.analysis = a] : c \in CommentLists, a \in Analyses}

ReferenceLists ==
  {None, JList(<<>>)} \cup {JList(<<p>>) : p \in FullPosts(1)}
  \cup {JList(<<p, q>>) : p \in FullPosts(1), q \in FullPosts(2)}

Reports ==
  {[Report(kw).v EXCEPT !.references = refs] :
     kw \in {ROk.f, ReportFallbackArgs("JSONDecodeError", <<Text>>)}, refs \in ReferenceLists}

DumpCalls == [fn : {"model_dump"}, report : Reports]

InitDump ==
  /\ Config = ShippedConfig
  /\ ckpt = [t \in ThreadIds |-> NoCheckpoint]
  /\ run = [u \in Sessions |-> IdleRun]
  /\ ui = [u \in Sessions |-> FreshUi]
  /\ ngen = 0
  /\ ninv = 0
  /\ call \in DumpCalls
  /\ ret = None

model_dump_call ==
  /\ call # None /\ call.fn = "model_dump" /\ ret = None
  /\ ret' = Ok(model_dump(call.report))
  /\ UNCHANGED <<Config, ckpt, run, ui, ngen, ninv, call>>

\* The dump written as JSON text and read back: json.loads, Report(**json_data).
report_from_dump_call ==
  /\ call # None /\ call.fn = "model_dump" /\ ret # None
  /\ "back" \notin DOMAIN ret
  /\ ret' = LET kw == Splat(json_loads(Bare(ret.v)))
             IN  [ok |-> TRUE, v |-> ret.v, back |-> IF kw.ok THEN Report(kw.v) ELSE kw]
  /\ UNCHANGED <<Config, ckpt, run, ui, ngen, ninv, call>>

NextDump == model_dump_call \/ report_from_dump_call

SpecDump == InitDump /\ [][NextDump]_vars

\* --------------------------------------------------- the routing on its own
\* create_llm as each step of the workflow calls it, and assess_complexity,
\* for any Config.Model made of the declared ModelConfigs and any query with
\* up to MaxKeywords keywords of each level.
RoutingConfigs == [DEFAULT : ModelConfigs, REPORT_WRITER : ModelConfigs]
RoutingQueries == {Query(h, m, l) : h \in 0..MaxKeywords, m \in 0..MaxKeywords,
                                    l \in 0..MaxKeywords}
WorkflowSteps == {"filter", "analyze", "report"}

\* workflow.py 43, 50 and 56
StepLlm(cfg, step, query) ==
  CASE step = "filter" -> create_llm(cfg, cfg.DEFAULT, query)
    [] step = "analyze" -> create_llm(cfg, cfg.DEFAULT, PostSpecificQuery(query))
    [] step = "report" -> create_llm(cfg, cfg.REPORT_WRITER, query)

RoutingCalls ==
  [fn : {"create_llm"}, step : WorkflowSteps, query : RoutingQueries]
  \cup [fn : {"assess_complexity"}, query : RoutingQueries]

InitRouting ==
  /\ Config \in RoutingConfigs
  /\ ckpt = [t \in ThreadIds |-> NoCheckpoint]
  /\ run = [u \in Sessions |-> IdleRun]
  /\ ui = [u \in Sessions |-> FreshUi]
  /\ ngen = 0
  /\ ninv = 0
  /\ call \in RoutingCalls
  /\ ret = None

create_llm_call ==
  /\ call # None /\ call.fn = "create_llm" /\ ret = None
  /\ ret' = Ok(StepLlm(Config, call.step, call.query))
  /\ UNCHANGED <<Config, ckpt, run, ui, ngen, ninv, call>>

assess_complexity_call ==
  /\ call # None /\ call.fn = "assess_complexity" /\ ret = None
  /\ ret' = Ok(assess_complexity(call.query))
  /\ UNCHANGED <<Config, ckpt, run, ui, ngen, ninv, call>>

NextRouting == create_llm_call \/ assess_complexity_call

SpecRouting == InitRouting /\ [][NextRouting]_vars

\* ------------------------------------------- truncate_context on its own
\* A text of up to MaxTextLen characters, the i-th character written i, and
\* a positive max_tokens up to MaxTokenLimit.
Texts == {[i \in 1..n |-> i] : n \in 0..MaxTextLen}
TruncateCalls == [fn : {"truncate_context"}, text : Texts, max_tokens : 1..MaxTokenLimit]

InitTruncate ==
  /\ Config = ShippedConfig
  /\ ckpt = [t \in ThreadIds |-> NoCheckpoint]
  /\ run = [u \in Sessions |-> IdleRun]
  /\ ui = [u \in Sessions |-> FreshUi]
  /\ ngen = 0
  /\ ninv = 0
  /\ call \in TruncateCalls
  /\ ret = None

truncate_context_call ==
  /\ call # None /\ call.fn = "truncate_context" /\ ret = None
  /\ ret' = Ok(truncate_context(call.text, call.max_tokens))
  /\ UNCHANGED <<Config, ckpt, run, ui, ngen, ninv, call>>

NextTruncate == truncate_context_call

SpecTruncate == InitTruncate /\ [][NextTruncate]_vars

\* ------------------------------------------------------------------ claims
Result(u) == run[u].result
Ended(u) == Result(u) # None
SentimentValues == {Lit(n) : n \in SentimentNames}

\* A failure of the world outside the program: an HTTP status, the network,
\* or a tool call of the LLM that names no tool or gives no query.
External(r) ==
  \/ r.error \in {"HTTPError", "TransportError"}
  \/ r.from.step = "filter" /\ r.error \in {"KeyError", "ValidationError"}

ResumedSuspended(r) == r.from.mode = "resume" /\ r.from.at = "suspended"

\* C1: a resume of a suspended session yields a Completed result whose
\* references are among the posts the start fetched, each with an analysis
\* (a failure of the network or the provider aside).
C1_ResumeCompletes ==
  \A u \in Sessions :
    (Ended(u) /\ ResumedSuspended(Result(u))) =>
       \/ Result(u).kind = "Failed" /\ External(Result(u))
       \/ /\ Result(u).kind = "Completed"
          /\ \A i \in 1..Len(Result(u).value.references.xs) :
               /\ Result(u).value.references.xs[i].permalink
                    \in Permalinks(Result(u).from.posts)
               /\ Result(u).value.references.xs[i].analysis # None

\* C2: a start whose fetch succeeds ends Suspended with the fetched posts, in
\* fetch order, as the interrupt payload; it never ends Completed, and no
\* invocation made by a start is ever at filter, analyze or write_report.
C2_StartSuspends ==
  \A u \in Sessions :
    /\ run[u].mode = "start" => run[u].pc \in {"fetch", "query"}
    /\ (Ended(u) /\ Result(u).from.mode = "start") =>
         \/ /\ Result(u).kind = "Failed"
            /\ Result(u).error = "HTTPError"
            /\ Result(u).from.fetches = 0
         \/ /\ Result(u).kind = "Suspended"
            /\ Result(u).from.fetches = 1
            /\ Result(u).payload = [posts |-> Result(u).from.posts]
            /\ Result(u).from.posts \in Listings(MaxPosts, Result(u).from.gen)

C2_Witness ==
  \E u \in Sessions :
    /\ Ended(u)
    /\ Result(u).kind = "Suspended"
    /\ Len(Result(u).payload.posts) = MaxPosts

\* C3: a resume of a suspended session starts at request_filter_query, which
\* returns the resume value, and goes on to filter with it; the invocation
\* never executes fetch, which the start executed once.
C3_ResumeInjectsQuery ==
  \A u \in Sessions :
    /\ (run[u].mode = "resume" /\ run[u].at = "suspended") =>
         /\ run[u].pc \in {"query", "filter", "analyze", "report"}
         /\ run[u].fetches = 0
         /\ run[u].pc # "query" => run[u].query = run[u].resume.filter_query
    /\ (Ended(u) /\ ResumedSuspended(Result(u))) =>
         /\ Result(u).from.fetches = 0
         /\ Result(u).from.step \in {"filter", "analyze", "report"}
    /\ (Ended(u) /\ Result(u).kind = "Suspended" /\ Result(u).from.mode = "start") =>
         Result(u).from.fetches = 1

C3_Witness ==
  \E u \in Sessions :
    /\ run[u].mode = "resume" /\ run[u].at = "suspended"
    /\ run[u].pc = "filter"
    /\ run[u].posts # <<>>

\* C4: a resume of a session whose run has finished fails with a 'no pending
\* interrupt' error.
C4_ResumeOfFinishedFails ==
  \A u \in Sessions :
    (Ended(u) /\ Result(u).from.mode = "resume" /\ Result(u).from.at = "finished") =>
       Result(u).kind = "Failed" /\ Result(u).error = "NoPendingInterrupt"

\* C5: analyze_post, given a response that does not parse or validate,
\* returns the fixed placeholder PostAnalysis with the error in its summary.
AnalysisPlaceholder(e, content) ==
  [summary |-> [fmt |-> "Error parsing response", e |-> e, original |-> content],
   key_points |-> <<Lit("Analysis failed"), Lit("JSON parsing error"), Lit("Check logs")>>,
   topics |-> <<Lit("error")>>,
   controversies |-> <<Lit("none")>>,
   sentiment |-> Lit("neutral")]

C5_MalformedAnalysisPlaceholder ==
  (/\ call # None /\ call.fn = "analyze_post" /\ ret # None
   /\ call.llm # None /\ call.outcome.ok
   /\ ~ParseAnalysis(call.outcome.v).ok) =>
     /\ ret.ok
     /\ ret.v = AnalysisPlaceholder(ParseAnalysis(call.outcome.v).e, call.outcome.v)

\* C6: where both configured models are served, a resumed run that got to the
\* analyze loop or to write_report does not end Failed unless a call failed
\* at the network layer.
C6_MalformedNeverFails ==
  \A u \in Sessions :
    (/\ create_llm(Config, Config.DEFAULT, Query(0, 0, 0)) # None
     /\ create_llm(Config, Config.REPORT_WRITER, Query(0, 0, 0)) # None
     /\ Ended(u) /\ Result(u).from.mode = "resume" /\ Result(u).kind = "Failed"
     /\ Result(u).from.step \in {"analyze", "report"}) =>
       Result(u).error = "TransportError"

\* C7: every analysis attached to a post, in an invocation, in a result or in
\* the checkpoint, has one of the eight sentiments.
SentimentOk(a) == a = None \/ a.sentiment \in SentimentValues
PostsOk(posts) == \A i \in 1..Len(posts) : SentimentOk(posts[i].analysis)

C7_SentimentInEnum ==
  /\ \A u \in Sessions :
       /\ PostsOk(run[u].posts) /\ PostsOk(run[u].selected)
       /\ Ended(u) =>
            /\ PostsOk(Result(u).from.selected)
            /\ (Result(u).kind = "Completed" /\ Result(u).value # None) =>
                 PostsOk(Result(u).value.references.xs)
  /\ \A i \in 1..Len(ckpt[THREAD_ID].analyses) : SentimentOk(ckpt[THREAD_ID].analyses[i])
  /\ ckpt[THREAD_ID].done => PostsOk(ckpt[THREAD_ID].output.references.xs)

C7_Witness ==
  \E u \in Sessions :
    /\ run[u].pc = "report"
    /\ run[u].selected # <<>>
    /\ \A i \in 1..Len(run[u].selected) : run[u].selected[i].analysis # None

\* C8: write_report, given analyzed posts and any response text, returns a
\* Report; when the text does not parse or validate, the Report has the error
\* in its title, the text in its summary and the three fixed takeaways.
C8_MalformedReportPlaceholder ==
  (/\ call # None /\ call.fn = "write_report" /\ ret # None
   /\ call.llm # None /\ PostTextsOk(call.posts) /\ call.outcome.ok) =>
     /\ ret.ok
     /\ ~ParseReport(call.outcome.v).ok =>
          /\ ret.v.title = [fmt |-> "Error Generating Report",
                            e |-> ParseReport(call.outcome.v).e]
          /\ ret.v.summary = [fmt |-> "There was an error parsing the model response",
                              original |-> call.outcome.v]
          /\ ret.v.takeaways = <<Lit("Report generation failed"),
                                 Lit("Try a different query"),
                                 Lit("Check logs for details")>>

C8_Witness ==
  /\ call # None /\ call.fn = "write_report" /\ ret # None
  /\ call.llm # None /\ PostTextsOk(call.posts) /\ call.outcome.ok
  /\ ~ParseReport(call.outcome.v).ok
  /\ HasF(call.outcome.v)
  /\ ret.ok

\* C9: a run whose filter selected no post and which reached write_report
\* ends Completed with no references (a failure of the network aside).
C9_EmptySelectionCompletes ==
  \A u \in Sessions :
    (/\ Ended(u) /\ Result(u).from.mode = "resume"
     /\ Result(u).from.step = "report" /\ Result(u).from.selected = <<>>) =>
       \/ Result(u).kind = "Failed" /\ Result(u).error = "TransportError"
       \/ Result(u).kind = "Completed" /\ Result(u).value.references = JList(<<>>)

\* C10: the references of the Report of a Completed run are the posts the
\* filter selected, in that order, each with the analysis the loop attached.
C10_ReferencesAreSelected ==
  \A u \in Sessions :
    (Ended(u) /\ Result(u).kind = "Completed" /\ Result(u).from.at # "finished") =>
       /\ Result(u).value.references = JList(Result(u).from.selected)
       /\ \A i \in 1..Len(Result(u).from.selected) :
            Result(u).from.selected[i].analysis # None
       /\ \A i, j \in 1..Len(Result(u).from.selected) :
            i < j => Result(u).from.selected[i].permalink[2]
                       < Result(u).from.selected[j].permalink[2]

C10_Witness ==
  \E u \in Sessions :
    /\ Ended(u) /\ Result(u).kind = "Completed" /\ Result(u).from.at # "finished"
    /\ Len(Result(u).value.references.xs) = MaxPosts

\* C11: within a session the steps run one after the other in the order
\* fetch, request_filter_query, filter, analyze (each selected post once, in
\* order), write_report; a step starts only from the results of the steps
\* before it.
StepEdges ==
  {<<"fetch", "query">>, <<"query", "filter">>, <<"filter", "analyze">>,
   <<"filter", "report">>, <<"analyze", "analyze">>, <<"analyze", "report">>}
Steps == {"fetch", "query", "filter", "analyze", "report"}

InOrder(r) ==
  /\ r.pc = "filter" => r.query # None /\ r.selected = <<>>
  /\ r.pc = "analyze" =>
       /\ r.query # None
       /\ r.i \in 1..Len(r.selected)
       /\ \A j \in 1..Len(r.selected) : (r.selected[j].analysis # None) <=> (j < r.i)
  /\ r.pc = "report" =>
       /\ r.query # None
       /\ \A j \in 1..Len(r.selected) : r.selected[j].analysis # None

C11_StepsInOrder ==
  [][\A u \in Sessions :
       /\ InOrder(run'[u])
       /\ (run[u].pc \in Steps /\ run'[u] # run[u]) =>
            \/ run'[u].pc = "idle" /\ run'[u].result # None
            \/ <<run[u].pc, run'[u].pc>> \in StepEdges
       /\ (run[u].pc = "analyze" /\ run'[u] # run[u] /\ run'[u].pc \in {"analyze", "report"}) =>
            /\ run'[u].i = run[u].i + 1
            /\ run'[u].pc = "report" <=> run[u].i = Len(run[u].selected)
       /\ (run[u].pc = "idle" /\ run'[u].pc # "idle" /\ run'[u].mode = "start") =>
            run'[u].pc = "fetch"]_vars

C11_Witness ==
  \E u \in Sessions :
    /\ run[u].pc = "analyze"
    /\ run[u].i = 2
    /\ Len(run[u].selected) = 2

\* C12: at no time are two invocations on the same thread id in progress.
\* Every invocation of the app runs on THREAD_ID.
C12_SingleWriter ==
  \A u1, u2 \in Sessions :
    (run[u1].pc \in Steps /\ run[u2].pc \in Steps) => u1 = u2

\* C13: while a session waits at its chat input for the query, the pending
\* checkpoint it will resume is the one of its own start, holding the posts
\* that start fetched; no other session's start replaces it.
C13_SessionsIndependent ==
  \A u \in Sessions :
    (/\ run[u].pc = "idle" /\ ui[u].chat_input
     /\ Ended(u) /\ Result(u).kind = "Suspended") =>
       /\ ckpt[THREAD_ID].gen = Result(u).from.gen
       /\ ckpt[THREAD_ID].fetched = Some(Result(u).payload.posts)

\* C14: when a step raises, the invocation ends Failed with the error the step
\* raised; the step is not run again, no later step runs in that invocation,
\* and the checkpoint is left as the last completed step wrote it.
StepErrors(step) ==
  CASE step = "fetch" -> {"HTTPError"}
    [] step = "filter" -> {"AttributeError", "TransportError", "KeyError", "ValidationError"}
    [] step = "analyze" -> {"AttributeError", "TransportError", "ValidationError"}
    [] step = "report" -> {"AttributeError", "TransportError"}
    [] OTHER -> {}

C14_FailedStepEndsRun ==
  [][\A u \in Sessions :
       (/\ run[u].pc \in Steps /\ run'[u].result # None
        /\ run'[u].result.kind = "Failed") =>
          /\ ckpt' = ckpt
          /\ run'[u].pc = "idle"
          /\ run'[u].result.from.step = run[u].pc
          /\ run'[u].result.from.fetches = run[u].fetches
          /\ run'[u].result.error \in StepErrors(run[u].pc)]_vars

C14_Witness ==
  \E u \in Sessions :
    /\ Ended(u) /\ Result(u).kind = "Failed" /\ Result(u).from.step = "analyze"
    /\ Visible(Result(u).from.gen)
    /\ ckpt[THREAD_ID].selected = Some(Result(u).from.selected)
    /\ ckpt[THREAD_ID].analyses = <<>>

\* C15: fetch_subreddit_posts raises when the listing request or the comment
\* request of any post is answered other than 200, and returns no list then;
\* with every answer 200 it returns the posts of the listing.
FetchCalled == call # None /\ call.fn = "fetch_subreddit_posts" /\ ret # None
Refused(response) == response.status_code # 200

C15_FetchFailsWhole ==
  FetchCalled =>
    IF Refused(call.listing) \/ \E i \in 1..Len(call.responses) : Refused(call.responses[i])
    THEN ret = Raise("HTTPError")
    ELSE ret = Ok(call.listing.json)

C15_Witness ==
  /\ FetchCalled
  /\ ~Refused(call.listing)
  /\ Len(call.responses) = 2
  /\ ~Refused(call.responses[1]) /\ Refused(call.responses[2])

\* C16: filter_posts returns the input posts whose permalink is among the
\* retrieved documents, in the order of the input, whatever the ranking.
FilterReturned == call # None /\ call.fn = "filter_posts" /\ ret # None /\ ret.ok
Found == {call.found[i] : i \in 1..Len(call.found)}
IndexIn(posts, p) == CHOOSE i \in 1..Len(posts) : posts[i] = p

C16_FilterKeepsInputOrder ==
  FilterReturned =>
    /\ \A i \in 1..Len(ret.v) :
         /\ \E j \in 1..Len(call.posts) : call.posts[j] = ret.v[i]
         /\ ret.v[i].permalink \in Found
    /\ \A j \in 1..Len(call.posts) :
         call.posts[j].permalink \in Found => \E i \in 1..Len(ret.v) : ret.v[i] = call.posts[j]
    /\ \A i, j \in 1..Len(ret.v) :
         i < j => IndexIn(call.posts, ret.v[i]) < IndexIn(call.posts, ret.v[j])

C16_Witness ==
  /\ FilterReturned
  /\ Len(call.found) = 3
  /\ call.found[1][2] > call.found[2][2]
  /\ Len(ret.v) = 3

\* C17: filter_posts returns at most FILTER_POST_COUNT posts, and the report
\* made from them has as many references as filter_posts returned.
C17_AtMostKPosts ==
  FilterReturned =>
    /\ Len(ret.v) <= 3
    /\ "report" \in DOMAIN ret => Len(ret.report.references.xs) = Len(ret.v)

C17_Witness ==
  /\ FilterReturned
  /\ Len(call.posts) = 4
  /\ Len(ret.v) = 3
  /\ "report" \in DOMAIN ret

\* The children given to a call of _extract_comments, every child below them,
\* and every Comment of the result, at any depth.
ExtractCalled == call # None /\ call.fn = "_extract_comments" /\ ret # None

RECURSIVE ApiNodes(_)
ApiNodes(children) ==
  UNION {{children[i]} \cup
         (IF IsPyDict(children[i].data.replies)
          THEN ApiNodes(children[i].data.replies.data.children) ELSE {}) :
         i \in 1..Len(children)}

RECURSIVE OutComments(_)
OutComments(comments) ==
  UNION {{comments[i]} \cup OutComments(comments[i].replies) : i \in 1..Len(comments)}

CallChildren ==
  IF IsPyList(call.data) THEN call.data.xs[2].data.children
  ELSE IF IsPyDict(call.data) THEN call.data.data.children
  ELSE <<>>

OutBodies == {c.text : c \in OutComments(ret.v)}
Below(q, p) == Len(q) < Len(p) /\ SubSeq(p, 1, Len(q)) = q
Parent(p) == SubSeq(p, 1, Len(p) - 1)

\* C18 as stated: with the default threshold and no depth limit, every comment
\* whose own score is at least 2 is in the result, whatever the scores of the
\* comments above it.
C18_ExclusionIsLocal ==
  (ExtractCalled /\ call.min_score = 2 /\ call.max_depth = -1) =>
    \A x \in ApiNodes(CallChildren) :
      (/\ x.kind = "t1" /\ x.data.score >= 2
       /\ \A y \in ApiNodes(CallChildren) : Below(y.data.body, x.data.body) => y.kind = "t1")
      => x.data.body \in OutBodies

\* C18 amended: exclusion is inherited.  A child that is left out takes every
\* reply below it with it, and a reply in the result is nested in the replies
\* of its own parent.
C18_ExclusionIsInherited ==
  ExtractCalled =>
    /\ \A x, y \in ApiNodes(CallChildren) :
         (Below(x.data.body, y.data.body) /\ x.data.body \notin OutBodies)
         => y.data.body \notin OutBodies
    /\ \A i \in 1..Len(ret.v) : Len(ret.v[i].text) = 1
    /\ \A c \in OutComments(ret.v) :
         \A i \in 1..Len(c.replies) : Parent(c.replies[i].text) = c.text

C18_Witness ==
  /\ ExtractCalled /\ call.min_score = 2 /\ call.max_depth = -1
  /\ \E x, y \in ApiNodes(CallChildren) :
       /\ Parent(y.data.body) = x.data.body
       /\ x.kind = "t1" /\ x.data.score = 1
       /\ y.kind = "t1" /\ y.data.score = 3
       /\ y.data.body \notin OutBodies
  /\ ret.v # <<>>

\* C19: no Comment of the result, at any depth, has a score below the
\* min_score the call was given.
C19_MinScoreAtEveryDepth ==
  ExtractCalled => \A c \in OutComments(ret.v) : c.score >= call.min_score

\* C20: with max_depth = d >= 0 no Comment of the result lies more than d
\* levels below the top-level comments; with max_depth = -1 (and the default
\* threshold) every comment is returned that passes the tests together with
\* all the comments above it, however deep; and at every level the comments
\* kept are in the order of the API data.
DepthOf(body) == Len(body) - 1
Passes(x) == x.kind = "t1" /\ x.data.score >= 2
InApiOrder(comments) ==
  \A i, j \in 1..Len(comments) :
    i < j => comments[i].text[Len(comments[i].text)] < comments[j].text[Len(comments[j].text)]

C20_DepthAndOrder ==
  ExtractCalled =>
    /\ call.max_depth >= 0 => \A c \in OutComments(ret.v) : DepthOf(c.text) <= call.max_depth
    /\ call.min_score = 2 =>
         \A x \in ApiNodes(CallChildren) :
           x.data.body \in OutBodies <=>
             /\ Passes(x)
             /\ \A y \in ApiNodes(CallChildren) : Below(y.data.body, x.data.body) => Passes(y)
             /\ call.max_depth = -1 \/ DepthOf(x.data.body) <= call.max_depth
    /\ InApiOrder(ret.v)
    /\ \A c \in OutComments(ret.v) : InApiOrder(c.replies)

C20_Witness ==
  /\ ExtractCalled /\ call.max_depth = 1
  /\ \E x \in ApiNodes(CallChildren) :
       /\ DepthOf(x.data.body) = 2
       /\ Passes(x)
       /\ \A y \in ApiNodes(CallChildren) : Below(y.data.body, x.data.body) => Passes(y)
       /\ x.data.body \notin OutBodies
       /\ Parent(x.data.body) \in OutBodies

\* C21: the analyze loop takes the selected posts one at a time in the order
\* filter_posts returned them; an iteration gives its own post, which had no
\* analysis, its analysis and leaves every other post as it was; a post the
\* filter did not select has no analysis at any time, no other step writes an
\* analysis, and no post leaves posts or selected_posts.
SamePosts(before, after) ==
  /\ Len(after) = Len(before)
  /\ \A j \in 1..Len(before) : after[j].permalink = before[j].permalink

OthersUnchanged(before, after, own) ==
  /\ SamePosts(before, after)
  /\ \A j \in 1..Len(before) : before[j].permalink # own => after[j] = before[j]

UnselectedNotAnalyzed(r) ==
  \A j \in 1..Len(r.posts) :
    r.posts[j].permalink \notin Permalinks(r.selected) => r.posts[j].analysis = None

C21_AnalyzeWritesOwnPostOnly ==
  [][\A u \in Sessions :
       /\ UnselectedNotAnalyzed(run'[u])
       /\ (run'[u].result # None /\ run'[u].result.from.step # "none") =>
            UnselectedNotAnalyzed(run'[u].result.from)
       /\ (run[u].pc = "analyze" /\ run'[u].pc \in {"analyze", "report"}) =>
            LET i == run[u].i
                own == run[u].selected[i].permalink
            IN  /\ run'[u].i = i + 1
                /\ run[u].selected[i].analysis = None
                /\ run'[u].selected[i].analysis # None
                /\ OthersUnchanged(run[u].selected, run'[u].selected, own)
                /\ OthersUnchanged(run[u].posts, run'[u].posts, own)
       /\ (run[u].pc \in {"query", "filter"} /\ run'[u].pc \in Steps) =>
            run'[u].posts = run[u].posts
       /\ (run[u].pc \in {"query", "filter", "analyze", "report"}
           /\ run'[u].pc = "idle" /\ run'[u].result.kind # "Suspended") =>
            /\ run'[u].result.from.posts = run[u].posts
            /\ run'[u].result.from.selected = run[u].selected]_vars

C21_Witness ==
  \E u \in Sessions :
    /\ run[u].pc = "report"
    /\ Len(run[u].posts) = 4
    /\ Len(run[u].selected) = 3
    /\ run[u].selected[1].permalink = <<1, 2>>
    /\ run[u].posts[1].analysis = None
    /\ \A j \in 1..3 : run[u].selected[j].analysis # None

\* C22: an invocation with a start input on a thread whose run has Completed
\* begins a new logical run: the checkpoint of the thread is replaced by an
\* empty one for the new input, fetch executes again, and the invocation ends
\* Suspended with the posts it fetched itself; it never returns the report
\* or the posts of the run before.
C22_StartAfterCompletedIsNew ==
  [][\A u \in Sessions :
       /\ (/\ ckpt[THREAD_ID].done
           /\ run[u].pc = "idle" /\ run'[u].pc # "idle" /\ run'[u].mode = "start") =>
            /\ run'[u].pc = "fetch"
            /\ run'[u].gen > ckpt[THREAD_ID].gen
            /\ run'[u].input \in StartInputs
            /\ run'[u].posts = <<>> /\ run'[u].fetches = 0
            /\ ckpt'[THREAD_ID] = [NoCheckpoint EXCEPT !.gen = run'[u].gen,
                                                       !.input = run'[u].input]
       /\ (/\ ckpt[THREAD_ID].done
           /\ run[u].pc = "idle" /\ run'[u].pc = "idle" /\ run'[u] # run[u]) =>
            run'[u].result.from.mode = "resume"
       /\ (run[u].mode = "start" /\ run[u].gen > 1
           /\ run'[u].pc = "idle" /\ run'[u].result.kind # "Failed") =>
            /\ run'[u].result.kind = "Suspended"
            /\ run[u].fetches = 1
            /\ run'[u].result.payload.posts \in Listings(run[u].input.max_posts, run[u].gen)]_vars

C22_Witness ==
  \E u, v \in Sessions :
    /\ Ended(v) /\ Result(v).kind = "Completed" /\ Result(v).from.gen = 1
    /\ Result(v).value.references.xs # <<>>
    /\ Ended(u) /\ Result(u).kind = "Suspended" /\ Result(u).from.gen = 2
    /\ Result(u).payload.posts # <<>>
    /\ ckpt[THREAD_ID].gen = 2 /\ ~ckpt[THREAD_ID].done
    /\ ckpt[THREAD_ID].fetched = Some(Result(u).payload.posts)

LlmCreated == call # None /\ call.fn = "create_llm" /\ ret # None

RoleModel(cfg, step) == IF step = "report" THEN cfg.REPORT_WRITER ELSE cfg.DEFAULT

C24_StepRunsOnRoleModel ==
  (LlmCreated /\ ret.v # None) => ret.v.model = RoleModel(Config, call.step).name

\* C25: create_llm returns a chat model, never None, for the model of every
\* role of every Config.Model, so that each step is given a usable model.
C25_CreateLlmNeverNone ==
  LlmCreated => ret.v # None /\ "model" \in DOMAIN ret.v

\* C26: a response that is JSON valid for the schema, bare or wrapped whole
\* in a ``` or ```json fence, comes back from analyze_post as that
\* PostAnalysis and from write_report as that Report, not as the placeholder
\* and not as an error.
Unfenced(c) ==
  IF Len(c) >= 2 /\ c[1].t \in {"F", "FJ"} /\ c[Len(c)].t = "F"
  THEN SubSeq(c, 2, Len(c) - 1)
  ELSE c

\* What the response says: the JSON value of the text without its wrapping.
Intended(c) == Splat(json_loads(Unfenced(Strip(c))))

C26_ValidJsonIsParsed ==
  (call # None /\ ret # None /\ call.llm # None /\ call.outcome.ok
   /\ Intended(call.outcome.v).ok) =>
     /\ (call.fn = "analyze_post" /\ PostAnalysis(Intended(call.outcome.v).v).ok) =>
          ret = PostAnalysis(Intended(call.outcome.v).v)
     /\ (/\ call.fn = "write_report" /\ PostTextsOk(call.posts)
         /\ Report(Intended(call.outcome.v).v).ok) =>
          ret = Report(Intended(call.outcome.v).v)

\* C27: when two or more levels share the highest keyword count of a query,
\* assess_complexity returns the lowest of those levels.
Levels == {"low", "medium", "high"}
Score(query, level) ==
  CASE level = "high" -> query.high
    [] level = "medium" -> query.medium
    [] level = "low" -> query.low
Top(query) == {lv \in Levels : \A other \in Levels : Score(query, lv) >= Score(query, other)}
Lowest(levels) ==
  IF "low" \in levels THEN "low" ELSE IF "medium" \in levels THEN "medium" ELSE "high"

C27_TiesPreferLower ==
  (call # None /\ call.fn = "assess_complexity" /\ ret # None
   /\ Cardinality(Top(call.query)) >= 2) =>
     ret.v = Lowest(Top(call.query))

\* C28: the tool call filter_posts executes carries one document per post it
\* was given, in their order, whatever documents the LLM put in the call, so
\* the posts returned are those of the given posts the retriever ranked;
\* with no tool call from the LLM it is a search_documents call with the
\* user's query, and filter_posts returns.
C28_SearchesGivenPosts ==
  (call # None /\ call.fn = "filter_posts" /\ ret # None
   /\ call.llm # None /\ call.outcome.ok) =>
     LET tool_call == PreparedToolCall(call.query, call.posts, call.outcome.v)
     IN  /\ Len(tool_call.args.documents) = Len(call.posts)
         /\ \A i \in 1..Len(call.posts) :
              tool_call.args.documents[i].metadata.permalink = call.posts[i].permalink
         /\ call.outcome.v.tool_calls = <<>> =>
              /\ tool_call.name = "search_documents"
              /\ tool_call.args.query = call.query
              /\ ret.ok
         /\ ret.ok => Permalinks(ret.v) = Found

C28_Witness ==
  /\ FilterReturned
  /\ call.outcome.v.tool_calls # <<>>
  /\ "documents" \in DOMAIN call.outcome.v.tool_calls[1].args
  /\ Len(call.posts) = 4
  /\ Len(ret.v) = 3

\* C29: truncate_context returns the text itself when it has at most
\* 4*max_tokens characters; otherwise the result is no longer than the text,
\* begins with the first and ends with the last (4*max_tokens)/4 characters
\* of it, and holds between the two markers a slice of the text that lies
\* after the first and before the last of those characters.
TruncateCalled == call # None /\ call.fn = "truncate_context" /\ ret # None

C29_TruncateNeverLonger ==
  TruncateCalled =>
    LET n == Len(call.text)
        out == ret.v
        quarter == (4 * call.max_tokens) \div 4
        middle == SubSeq(out, quarter + MarkerLen + 1, Len(out) - quarter - MarkerLen)
    IN  IF n <= 4 * call.max_tokens THEN out = call.text
        ELSE /\ Len(out) <= n
             /\ SubSeq(out, 1, quarter) = SubSeq(call.text, 1, quarter)
             /\ SubSeq(out, Len(out) - quarter + 1, Len(out)) = SubSeq(call.text, n - quarter + 1, n)
             /\ \A i \in 1..Len(middle) : middle[i] > quarter /\ middle[i] <= n - quarter
             /\ \A i \in 1..(Len(middle) - 1) : middle[i + 1] = middle[i] + 1

====
